---- MODULE Spec2Model ----
(***************************************************************************)
(* aPLib decompressor (src/aplib.py): the bit machine BitsDecompress and   *)
(* the opcode state machine Decompress, as a state machine over the        *)
(* fields of one Decompress object.                                        *)
(*                                                                         *)
(* A method is an operator from an object record m to the object record    *)
(* after the call.  m.ok = FALSE means the call raised (IndexError from    *)
(* an exhausted stream or from out[-offset]); the fields then hold what    *)
(* was assigned before the exception, as in Python.  m.ret is the integer  *)
(* the call returned, m.stop the boolean a handler returned.               *)
(***************************************************************************)
EXTENDS Integers, Sequences, FiniteSets, TLC

VARIABLES
    in,                 \* self.__in: the bytes of the stream
    pos,                \* self.__in: the stream's read position
    current_bit,        \* self.__current_bit
    tag,                \* self.__tag
    out,                \* self.out
    max_offset,         \* self.max_offset
    max_match_length,   \* self.max_match_length
    bits_count,         \* self.bits_count
    bytes_count,        \* self.bytes_count
    pair,               \* self.__pair
    last_offset,        \* self.__last_offset
    pc,                 \* where the caller is: "start", "running", "done", "failed"
    last                \* the last handler entered (op) and its locals

vars == <<in, pos, current_bit, tag, out, max_offset, max_match_length,
          bits_count, bytes_count, pair, last_offset, pc, last>>

(***************************************************************************)
(* Program constants.                                                      *)
(***************************************************************************)
\* Python's None (the tag before the first reload, read_literal's default).
None == -1

\* tag_size, as Decompress.__init__ passes it.
tag_size == 1

Pow2(n) == 2 ^ n

(***************************************************************************)
(* Python sequence indexing seq[i] (0-based, negative from the end).       *)
(***************************************************************************)
PyIndexOk(seq, i) ==
    IF i < 0 THEN -i <= Len(seq) ELSE i < Len(seq)

PyIndex(seq, i) ==
    IF i < 0 THEN seq[Len(seq) + i + 1] ELSE seq[i + 1]

(***************************************************************************)
(* What last records of a pass of do(): the method entered last (op), the   *)
(* branch it took (how), bits_count when it was entered (at), and its      *)
(* locals as far as they were assigned (None: not yet).                    *)
(***************************************************************************)
NoLog == [op |-> "", how |-> "", at |-> None, b |-> None, lo |-> None,
          v |-> None, offset |-> None, length |-> None]

(***************************************************************************)
(* Sequencing: the statement after a call runs only if the call returned;  *)
(* an exception leaves the method at once, and the caller, up to do().     *)
(***************************************************************************)
Then(r, rest(_)) == IF r.ok THEN rest(r) ELSE r

(***************************************************************************)
(* BitsDecompress                                                          *)
(***************************************************************************)
BitsDecompressInit(data, tagsize) ==
    [in |-> data, pos |-> 0,
     current_bit |-> 0, tag |-> None, tag_size |-> tagsize,
     out |-> << >>, max_offset |-> 0, max_match_length |-> 0,
     bits_count |-> 0, bytes_count |-> 0,
     ok |-> TRUE, ret |-> 0, stop |-> FALSE, log |-> NoLog]

\* Variant of read_byte: the byte read is also kept as the tag.
read_byte_into_tag(m) ==
    IF m.pos < Len(m.in)
    THEN [m EXCEPT !.ret = m.in[m.pos + 1],
                   !.pos = @ + 1,
                   !.bytes_count = @ + 1,
                   !.tag = m.in[m.pos + 1]]
    ELSE [m EXCEPT !.ok = FALSE]

\* Variant of read_byte: (self.__in.read(1) or b"\\0")[0], a zero byte at
\* the end of the stream.
read_byte_zero_at_end(m) ==
    IF m.pos < Len(m.in)
    THEN [m EXCEPT !.ret = m.in[m.pos + 1],
                   !.pos = @ + 1,
                   !.bytes_count = @ + 1]
    ELSE [m EXCEPT !.ret = 0, !.bytes_count = @ + 1]

\* self.__in.read(1)[0] raises IndexError when the stream is exhausted
read_byte(m) ==
    IF m.pos < Len(m.in)
    THEN [m EXCEPT !.ret = m.in[m.pos + 1],
                   !.pos = @ + 1,
                   !.bytes_count = @ + 1]
    ELSE [m EXCEPT !.ok = FALSE]

\* for i in range(self.__tag_size - 1): self.__tag += self.read_byte() << (8 * (i + 1))
RECURSIVE reload_rest(_, _)
reload_rest(m, i) ==
    IF i >= m.tag_size - 1 THEN m
    ELSE Then(read_byte(m),
              LAMBDA r : reload_rest([r EXCEPT !.tag = @ + r.ret * Pow2(8 * (i + 1))],
                                     i + 1))

\* Variant of extract_bit: the least significant bit first.
extract_bit_lsb_first(m) ==
    [m EXCEPT !.ret = m.tag % 2,
              !.tag = @ \div 2,
              !.bits_count = @ + 1]

\* bit = (tag >> (tag_size * 8 - 1)) & 1; tag <<= 1; bits_count += 1
extract_bit(m) ==
    [m EXCEPT !.ret = (m.tag \div Pow2(m.tag_size * 8 - 1)) % 2,
              !.tag = @ * 2,
              !.bits_count = @ + 1]

\* the else branch of read_bit: a new tag
reload(m) ==
    Then(read_byte([m EXCEPT !.current_bit = m.tag_size * 8 - 1]),
         LAMBDA r : reload_rest([r EXCEPT !.tag = r.ret, !.bytes_count = @ - 1], 0))

read_bit(m) ==
    IF m.current_bit # 0
    THEN extract_bit([m EXCEPT !.current_bit = @ - 1])
    ELSE Then(reload(m), extract_bit)

RECURSIVE fixednumber_loop(_, _, _)
fixednumber_loop(m, n, result) ==
    IF n = 0 THEN [m EXCEPT !.ret = result]
    ELSE Then(read_bit(m),
              LAMBDA r : fixednumber_loop(r, n - 1, result * 2 + r.ret))

\* Variant of read_fixednumber: one bit short.
read_fixednumber_short(m, nbbit, init) == fixednumber_loop(m, nbbit - 1, init)

read_fixednumber(m, nbbit, init) == fixednumber_loop(m, nbbit, init)

\* while self.read_bit(): result = (result << 1) + self.read_bit()
RECURSIVE variablenumber_loop(_, _)
variablenumber_loop(m, result) ==
    Then(read_bit(m),
         LAMBDA c : IF c.ret = 0 THEN [c EXCEPT !.ret = result]
                    ELSE Then(read_bit(c),
                              LAMBDA d : variablenumber_loop(d, result * 2 + d.ret)))

\* Variant of read_variablenumber: result starts at 0, not 1.
read_variablenumber_from_zero(m) ==
    Then(read_bit(m), LAMBDA r : variablenumber_loop(r, 0 * 2 + r.ret))

read_variablenumber(m) ==
    Then(read_bit(m), LAMBDA r : variablenumber_loop(r, 1 * 2 + r.ret))

\* while result < max_ and self.read_bit() == set_: result += 1
RECURSIVE setbits_loop(_, _, _, _)
setbits_loop(m, max_, set_, result) ==
    IF ~(result < max_) THEN [m EXCEPT !.ret = result]
    ELSE Then(read_bit(m),
              LAMBDA r : IF r.ret = set_ THEN setbits_loop(r, max_, set_, result + 1)
                         ELSE [r EXCEPT !.ret = result])

read_setbits(m, max_, set_) == setbits_loop(m, max_, set_, 0)

Max(a, b) == IF a >= b THEN a ELSE b

\* Variant of copy_byte: a distance past the start of out is taken as the
\* distance of the first byte.
copy_byte_clamped(m, offset) ==
    IF PyIndexOk(m.out, -offset)
    THEN [m EXCEPT !.out = Append(@, PyIndex(m.out, -offset))]
    ELSE IF Len(m.out) > 0
    THEN [m EXCEPT !.out = Append(@, m.out[1])]
    ELSE [m EXCEPT !.ok = FALSE]

\* back_copy's loop body: b = self.out[-offset]; self.out.append(b)
copy_byte(m, offset) ==
    IF PyIndexOk(m.out, -offset)
    THEN [m EXCEPT !.out = Append(@, PyIndex(m.out, -offset))]
    ELSE [m EXCEPT !.ok = FALSE]

\* for i in range(length): the passes i = 0 .. length-1 in order, those of the
\* first half and then those of the rest
RECURSIVE copy_loop(_, _, _)
copy_loop(m, offset, length) ==
    IF length <= 0 THEN m
    ELSE IF length = 1 THEN copy_byte(m, offset)
    ELSE Then(copy_loop(m, offset, length \div 2),
              LAMBDA r : copy_loop(r, offset, length - length \div 2))

\* Variant of back_copy: the bytes are taken as one slice of out as it was
\* before the copy, out[-offset:][:length].
back_copy_slice(m, offset, length) ==
    IF length > 0 /\ ~PyIndexOk(m.out, -offset)
    THEN [m EXCEPT !.ok = FALSE]
    ELSE LET n     == Len(m.out)
             first == IF offset = 0 THEN 1 ELSE n - offset + 1
             end   == IF first + length - 1 < n THEN first + length - 1 ELSE n
         IN  [m EXCEPT !.out = @ \o SubSeq(m.out, first, end),
                       !.max_offset = Max(@, offset),
                       !.max_match_length = Max(@, length)]

back_copy(m, offset, length) ==
    Then(copy_loop(m, offset, length),
         LAMBDA r : [r EXCEPT !.max_offset = Max(@, offset),
                              !.max_match_length = Max(@, length)])

\* Variant of append: self.out = bytearray([b])
append_assigns(m, b) == [m EXCEPT !.out = <<b>>, !.stop = FALSE]

\* self.out.append(b)
append(m, b) == [m EXCEPT !.out = Append(@, b), !.stop = FALSE]

\* Variant of read_literal: at the end of the stream nothing is appended.
read_literal_lenient(m, value) ==
    IF value = None
    THEN IF m.pos < Len(m.in)
         THEN Then(read_byte(m), LAMBDA r : append(r, r.ret))
         ELSE [m EXCEPT !.stop = FALSE]
    ELSE append(m, value)

read_literal(m, value) ==
    IF value = None
    THEN Then(read_byte(m), LAMBDA r : append(r, r.ret))
    ELSE append(m, value)

(***************************************************************************)
(* Decompress                                                              *)
(***************************************************************************)
DecompressInit(data) ==
    BitsDecompressInit(data, tag_size) @@ [pair |-> TRUE, last_offset |-> 0]

\* a method is entered: last starts to record its locals
Log(m, op) == [m EXCEPT !.log = [NoLog EXCEPT !.op = op, !.at = m.bits_count]]

literal(m) ==
    Then(read_literal(Log(m, "literal"), None),
         LAMBDA r : [r EXCEPT !.pair = TRUE, !.stop = FALSE, !.log.v = r.ret])

\* Variant of length_delta: the thresholds as the module docstring words them.
length_delta_docstring(offset) ==
    IF offset <= 127 THEN 2
    ELSE IF offset <= 1280 THEN 1
    ELSE IF offset >= 32000 THEN 2
    ELSE 0

length_delta(offset) ==
    IF offset < 128 \/ 32000 <= offset THEN 2
    ELSE IF 1280 <= offset THEN 1
    ELSE 0

\* __block from self.__last_offset = offset on
block_copy(m, offset, length) ==
    Then(back_copy([m EXCEPT !.last_offset = offset,
                             !.log.offset = offset,
                             !.log.length = length],
                   offset, length),
         LAMBDA r : [r EXCEPT !.pair = FALSE, !.stop = FALSE])

\* the branch of __block taken when b == 0 and self.__pair
block_reuse(m) ==
    Then(read_variablenumber([m EXCEPT !.log.how = "reused"]),
         LAMBDA r : block_copy([r EXCEPT !.log.v = r.ret], m.last_offset, r.ret))

\* the else branch of __block, from the offset on
block_length(m, offset) ==
    Then(read_variablenumber(m),
         LAMBDA r : block_copy([r EXCEPT !.log.v = r.ret],
                               offset, r.ret + length_delta(offset)))

\* Variant of block_encoded: b is not decremented after a literal.
block_encoded_no_decrement(m, b) ==
    Then(read_byte([m EXCEPT !.log.how = "encoded"]),
         LAMBDA r : block_length([r EXCEPT !.log.lo = r.ret], b * 256 + r.ret))

\* the else branch of __block
block_encoded(m, b) ==
    Then(read_byte([m EXCEPT !.log.how = "encoded"]),
         LAMBDA r : block_length([r EXCEPT !.log.lo = r.ret],
                                 (IF m.pair THEN b - 1 ELSE b) * 256 + r.ret))

\* __block once b is known
block_branch(m, b) ==
    IF b = 0 /\ m.pair THEN block_reuse(m) ELSE block_encoded(m, b)

block(m) ==
    Then(read_variablenumber(Log(m, "block")),
         LAMBDA r : block_branch([r EXCEPT !.log.b = r.ret - 2], r.ret - 2))

\* Variant of shortblock_branch: the length is taken from the top bit of b and
\* the offset from its low seven bits.
shortblock_branch_high_bit(m, b) ==
    IF b <= 1
    THEN [m EXCEPT !.log.how = "EOF", !.stop = TRUE]
    ELSE Then(back_copy([m EXCEPT !.log.how = "copy",
                                  !.log.offset = b % 128,
                                  !.log.length = 2 + (b \div 128)],
                        b % 128, 2 + (b \div 128)),
              LAMBDA r : [r EXCEPT !.last_offset = b % 128,
                                   !.pair = FALSE,
                                   !.stop = FALSE])

\* Variant of shortblock_branch: only the raw byte 0 ends the stream.
shortblock_branch_zero_only(m, b) ==
    IF b < 1
    THEN [m EXCEPT !.log.how = "EOF", !.stop = TRUE]
    ELSE Then(back_copy([m EXCEPT !.log.how = "copy",
                                  !.log.offset = b \div 2,
                                  !.log.length = 2 + (b % 2)],
                        b \div 2, 2 + (b % 2)),
              LAMBDA r : [r EXCEPT !.last_offset = b \div 2,
                                   !.pair = FALSE,
                                   !.stop = FALSE])

\* Variant of shortblock_branch: the terminator has a second raw byte.
shortblock_branch_two_byte_end(m, b) ==
    IF b <= 1
    THEN Then(read_byte([m EXCEPT !.log.how = "EOF"]),
              LAMBDA r : [r EXCEPT !.stop = TRUE])
    ELSE Then(back_copy([m EXCEPT !.log.how = "copy",
                                  !.log.offset = b \div 2,
                                  !.log.length = 2 + (b % 2)],
                        b \div 2, 2 + (b % 2)),
              LAMBDA r : [r EXCEPT !.last_offset = b \div 2,
                                   !.pair = FALSE,
                                   !.stop = FALSE])

\* __shortblock once b is known
shortblock_branch(m, b) ==
    IF b <= 1
    THEN [m EXCEPT !.log.how = "EOF", !.stop = TRUE]
    ELSE Then(back_copy([m EXCEPT !.log.how = "copy",
                                  !.log.offset = b \div 2,
                                  !.log.length = 2 + (b % 2)],
                        b \div 2, 2 + (b % 2)),
              LAMBDA r : [r EXCEPT !.last_offset = b \div 2,
                                   !.pair = FALSE,
                                   !.stop = FALSE])

shortblock(m) ==
    Then(read_byte(Log(m, "short block")),
         LAMBDA r : shortblock_branch([r EXCEPT !.log.b = r.ret], r.ret))

\* Variant of singlebyte_branch: a copy records its distance as last_offset.
singlebyte_branch_sets_last_offset(m, offset) ==
    IF offset # 0
    THEN Then(back_copy([m EXCEPT !.log.how = "copy", !.log.length = 1], offset, 1),
              LAMBDA r : [r EXCEPT !.last_offset = offset])
    ELSE read_literal([m EXCEPT !.log.how = "zero"], 0)

\* __singlebyte once offset is known
singlebyte_branch(m, offset) ==
    IF offset # 0
    THEN back_copy([m EXCEPT !.log.how = "copy", !.log.length = 1], offset, 1)
    ELSE read_literal([m EXCEPT !.log.how = "zero"], 0)

\* Variant of singlebyte: only the zero byte, a literal, sets pair.
singlebyte_pair_on_zero_only(m) ==
    Then(read_fixednumber(Log(m, "single byte"), 4, 0),
         LAMBDA r : Then(singlebyte_branch([r EXCEPT !.log.offset = r.ret], r.ret),
                         LAMBDA q : [q EXCEPT !.pair = IF r.ret = 0 THEN TRUE ELSE @,
                                              !.stop = FALSE]))

singlebyte(m) ==
    Then(Then(read_fixednumber(Log(m, "single byte"), 4, 0),
              LAMBDA r : singlebyte_branch([r EXCEPT !.log.offset = r.ret], r.ret)),
         LAMBDA r : [r EXCEPT !.pair = TRUE, !.stop = FALSE])

\* self.__functions[i]()
functions(i, m) ==
    CASE i = 0 -> literal(m)
      [] i = 1 -> block(m)
      [] i = 2 -> shortblock(m)
      [] i = 3 -> singlebyte(m)

\* Variant of initial_literal: do() goes straight to the loop.
initial_literal_skipped(m) == Log(m, "initial literal")

\* do(), up to the loop: the first byte is a literal
initial_literal(m) ==
    Then(read_literal(Log(m, "initial literal"), None),
         LAMBDA r : [r EXCEPT !.log.v = r.ret])

\* Variant of opcode: at most two set bits are counted.
opcode_max_two(m) == read_setbits(Log(m, "opcode"), 2, 1)

\* the opcode of one pass of do()'s loop
opcode(m) == read_setbits(Log(m, "opcode"), 3, 1)

\* one pass of do()'s loop: self.__functions[self.read_setbits(3)]()
pass(m) == Then(opcode(m), LAMBDA s : functions(s.ret, s))

\* while True: if <pass>: break
RECURSIVE loop(_)
loop(m) == Then(pass(m), LAMBDA r : IF r.stop THEN r ELSE loop(r))

\* x.do() as one call: m.ok and m.stop say that it returned, m.out is what
\* it returned
do(m) == Then(initial_literal(m), loop)

(***************************************************************************)
(* The object as the state of the machine.                                 *)
(***************************************************************************)
Self ==
    [in |-> in, pos |-> pos,
     current_bit |-> current_bit, tag |-> tag, tag_size |-> tag_size,
     out |-> out, max_offset |-> max_offset, max_match_length |-> max_match_length,
     bits_count |-> bits_count, bytes_count |-> bytes_count,
     pair |-> pair, last_offset |-> last_offset,
     ok |-> TRUE, ret |-> 0, stop |-> FALSE, log |-> last]

Commit(m) ==
    /\ in' = m.in
    /\ pos' = m.pos
    /\ current_bit' = m.current_bit
    /\ tag' = m.tag
    /\ out' = m.out
    /\ max_offset' = m.max_offset
    /\ max_match_length' = m.max_match_length
    /\ bits_count' = m.bits_count
    /\ bytes_count' = m.bytes_count
    /\ pair' = m.pair
    /\ last_offset' = m.last_offset
    /\ last' = m.log

\* where do() is after a call that left the object as m
After(m) ==
    IF ~m.ok THEN "failed" ELSE IF m.stop THEN "done" ELSE "running"

(***************************************************************************)
(* Bounds and the inputs of the model.                                     *)
(***************************************************************************)
MaxIn == 4

\* The byte values of the short inputs: as tags, every opcode (0, 1, 2, 3, 42,
\* 65: literals first; 128, 171: block; 192: short block; 224, 226: single
\* byte); as raw bytes, literals, offsets 0 to 3 and both terminators.
Bytes == {0, 1, 2, 3, 42, 65, 128, 171, 192, 224, 226}

\* Compressed streams that end in a terminator.
\* LongRun: 41 42 43, a block of 32100 bytes at offset 3, then six blocks
\* whose offsets are 0x7F, 0x80, 0x4FF, 0x500, 0x7CFF and 0x7D00.
LongRun ==
    <<65, 43, 66, 67, 3, 253, 223, 87, 32, 127, 130, 128, 194, 255, 226, 0,
      255, 194, 255, 255, 227, 0, 0, 0>>

\* Mixed: literal, short block (offset 2), literal, block reusing the offset,
\* single byte (offset 3), block reusing the offset, single byte zero, and the
\* terminator with raw byte 1.
Mixed == <<42, 100, 65, 5, 0, 28, 226, 225, 128, 1>>

\* Apart: three literals, a short block (offset 3), then a literal, a single
\* byte (offset 2), a single byte zero and a literal before a block that
\* reuses the offset, and the terminator.
Apart == <<16, 51, 32, 48, 6, 64, 151, 4, 80, 88, 0>>

Scenarios == {LongRun, Mixed, Apart}

\* The shortest complete streams: a literal, a tag that starts with 110 and
\* the raw byte 0 or 1, alone and followed by one more byte.
Shortest ==
    {<<42, t, b>> : t \in 192..223, b \in {0, 1}}
        \cup {<<42, t, 0, 255>> : t \in 192..223}

\* A literal and a Single Byte whose distance is 3.
TooFar == <<42, 230>>

\* every byte sequence of at most MaxIn bytes over Bytes, and the scenarios
Inputs ==
    UNION {[1..n -> Bytes] : n \in 0..MaxIn}
        \cup Scenarios \cup Shortest \cup {TooFar}

(***************************************************************************)
(* Spec: x = Decompress(data); x.do()                                      *)
(***************************************************************************)
\* the object Decompress(data) for some data of S, do() not yet called
Constructed(S) ==
    /\ \E data \in S :
          /\ in = DecompressInit(data).in
          /\ pos = DecompressInit(data).pos
          /\ current_bit = DecompressInit(data).current_bit
          /\ tag = DecompressInit(data).tag
          /\ out = DecompressInit(data).out
          /\ max_offset = DecompressInit(data).max_offset
          /\ max_match_length = DecompressInit(data).max_match_length
          /\ bits_count = DecompressInit(data).bits_count
          /\ bytes_count = DecompressInit(data).bytes_count
          /\ pair = DecompressInit(data).pair
          /\ last_offset = DecompressInit(data).last_offset
          /\ last = DecompressInit(data).log
    /\ pc = "start"

Init == Constructed(Inputs)

InitialLiteral ==
    /\ pc = "start"
    /\ Commit(initial_literal(Self))
    /\ pc' = After(initial_literal(Self))

\* One pass of do()'s loop: the handler that read_setbits(3) selects, here i.
Dispatch(i) ==
    LET s == opcode(Self)
    IN  /\ s.ok
        /\ s.ret = i
        /\ Commit(functions(i, s))
        /\ pc' = After(functions(i, s))

Literal ==
    /\ pc = "running"
    /\ Dispatch(0)

Block ==
    /\ pc = "running"
    /\ Dispatch(1)

ShortBlock ==
    /\ pc = "running"
    /\ Dispatch(2)

SingleByte ==
    /\ pc = "running"
    /\ Dispatch(3)

\* One pass of do()'s loop in which read_setbits raises.
OpcodeFails ==
    /\ pc = "running"
    /\ ~opcode(Self).ok
    /\ Commit(opcode(Self))
    /\ pc' = "failed"

Next ==
    \/ InitialLiteral
    \/ Literal
    \/ Block
    \/ ShortBlock
    \/ SingleByte
    \/ OpcodeFails

Spec == Init /\ [][Next]_vars

(***************************************************************************)
(* SpecRun: Spec, and do() keeps running: the interpreter executes the     *)
(* next pass of the loop as long as do() has neither returned nor raised.  *)
(* This is weak fairness of Next, WF_vars(Next), that is                   *)
(*     []<>(~ENABLED <<Next>>_vars) \/ []<><<Next>>_vars                   *)
(* with ENABLED <<Next>>_vars written as the state predicate it equals:    *)
(* Next has a step, and one that changes vars, exactly when pc is "start"  *)
(* or "running", as every call do() makes either returns or raises.        *)
(***************************************************************************)
\* do() has neither returned nor raised
Live == pc \in {"start", "running"}

Fairness == []<>(~Live) \/ []<><<Next>>_vars

SpecRun == Spec /\ Fairness

(***************************************************************************)
(* SpecVN: x = Decompress(data), then x.read_variablenumber() again and    *)
(* again until it raises.  Every byte of data is then a tag.               *)
(***************************************************************************)
MaxVNIn == 2

\* The byte values of these inputs: the codes of 2, 3, 4, 7 and 14 (0, 128,
\* 64, 224, 240), of 170 (119 then 112), and mixed bits (85, 170, 255).
VNBytes == {0, 64, 85, 112, 119, 128, 170, 224, 240, 255}

VNInputs == UNION {[1..n -> VNBytes] : n \in 0..MaxVNIn}

InitVN == Constructed(VNInputs)

\* v = x.read_variablenumber()
call_read_variablenumber(m) ==
    Then(read_variablenumber(Log(m, "read_variablenumber")),
         LAMBDA r : [r EXCEPT !.log.v = r.ret])

ReadVariableNumber ==
    /\ pc \in {"start", "running"}
    /\ Commit(call_read_variablenumber(Self))
    /\ pc' = After(call_read_variablenumber(Self))

NextVN == ReadVariableNumber

SpecVN == InitVN /\ [][NextVN]_vars

(***************************************************************************)
(* SpecBits: x = Decompress(data), then x.read_bit() and x.read_byte() in  *)
(* any order until one raises.                                             *)
(***************************************************************************)
MaxBitsIn == 3

\* The byte values of these inputs: 01001011 and 10110010, which differ from
\* their mirror images, and 0.
BitBytes == {0, 75, 178}

BitsInputs == UNION {[1..n -> BitBytes] : n \in 0..MaxBitsIn}

InitBits == Constructed(BitsInputs)

\* v = x.read_bit()
call_read_bit(m) ==
    Then(read_bit(Log(m, "read_bit")),
         LAMBDA r : [r EXCEPT !.log.v = r.ret])

\* v = x.read_byte()
call_read_byte(m) ==
    Then(read_byte(Log(m, "read_byte")),
         LAMBDA r : [r EXCEPT !.log.v = r.ret])

ReadBit ==
    /\ pc \in {"start", "running"}
    /\ Commit(call_read_bit(Self))
    /\ pc' = After(call_read_bit(Self))

ReadByte ==
    /\ pc \in {"start", "running"}
    /\ Commit(call_read_byte(Self))
    /\ pc' = After(call_read_byte(Self))

NextBits ==
    \/ ReadBit
    \/ ReadByte

SpecBits == InitBits /\ [][NextBits]_vars

(***************************************************************************)
(* Properties.  A step of Spec from pc = "running" is one pass of do()'s   *)
(* loop; last' then holds what the pass did.                               *)
(***************************************************************************)

\* The bytes a step appended are copies from distance offset.
CopiedFrom(offset) ==
    \A i \in (Len(out) + 1)..Len(out') : out'[i] = out'[i - offset]

\* The step left the bytes that were in out where they were.
Kept == SubSeq(out', 1, Len(out)) = out

\* C1: do() returns exactly when a Short Block reads a raw byte 0 or 1; both
\* values end the decode the same way and append nothing; no other pass
\* ends the loop.
C1_ReturnsOnlyOnTerminator ==
    [][ /\ (pc' = "done") <=>
               (pc = "running" /\ last'.op = "short block" /\ last'.b \in {0, 1})
        /\ (pc' = "done") =>
               /\ last'.how = "EOF"
               /\ out' = out
               /\ pair' = pair
               /\ last_offset' = last_offset
               /\ bytes_count' = bytes_count + 1
               /\ last'.b = in[pos']
      ]_vars

C1_Witness ==
    /\ pc = "done"
    /\ last.op = "short block"
    /\ last.b = 1
    /\ Len(out) > 1

\* The i-th bit (from 0) that read_bit will return, as long as no raw byte is
\* read in between: the bits left in the tag, most significant first, then
\* those of the next byte of the stream; None past the end of the stream.
Upcoming(i) ==
    IF i < current_bit THEN (tag \div Pow2(7 - i)) % 2
    ELSE IF pos < Len(in) THEN (in[pos + 1] \div Pow2(7 - (i - current_bit))) % 2
    ELSE None

\* The 1-bits before the first 0-bit among the next three bits.
LeadingOnes ==
    IF Upcoming(0) # 1 THEN 0
    ELSE IF Upcoming(1) # 1 THEN 1
    ELSE IF Upcoming(2) # 1 THEN 2
    ELSE 3

\* The stream ends before the opcode is read.
OpcodeCutShort ==
    \E k \in 0..2 : (\A j \in 0..(k - 1) : Upcoming(j) = 1) /\ Upcoming(k) = None

HandlerOf(n) ==
    CASE n = 0 -> "literal"
      [] n = 1 -> "block"
      [] n = 2 -> "short block"
      [] n = 3 -> "single byte"

\* C2: each pass enters the handler that the count of 1-bits before the
\* first 0-bit selects (at most 3), having consumed 1, 2, 3 and 3 bits.
C2_OpcodeSelection ==
    [][ pc = "running" =>
            IF OpcodeCutShort
            THEN last'.op = "opcode" /\ pc' = "failed"
            ELSE /\ last'.op = HandlerOf(LeadingOnes)
                 /\ last'.at = bits_count + (IF LeadingOnes = 3 THEN 3
                                             ELSE LeadingOnes + 1)
      ]_vars

\* a Single Byte whose three opcode bits lie in two tags
C2_Witness ==
    /\ pc = "running"
    /\ last.op = "single byte"
    /\ (last.at - 3) \div 8 # (last.at - 1) \div 8
    /\ bits_count = last.at + 4

BlockBytes(how, v, offset) ==
    IF how = "reused" THEN v
    ELSE IF offset < 128 \/ offset >= 32000 THEN v + 2
    ELSE IF 1280 <= offset /\ offset < 32000 THEN v + 1
    ELSE v

C5_ShortBlock ==
    [][ (pc = "running" /\ last'.op = "short block" /\ last'.b # None) =>
            /\ bytes_count' = bytes_count + 1
            /\ last'.b = in[pos']
            /\ bits_count' = last'.at
            /\ (last'.b >= 2 /\ pc' = "running") =>
                   /\ last'.b \div 2 \in 1..127
                   /\ Len(out') = Len(out) + 2 + (last'.b % 2)
                   /\ Kept
                   /\ CopiedFrom(last'.b \div 2)
                   /\ last_offset' = last'.b \div 2
                   /\ pair' = FALSE
      ]_vars

\* a Short Block has copied 3 bytes
C5_Witness ==
    /\ pc = "running"
    /\ last.op = "short block"
    /\ last.b = 5
    /\ Len(out) = 5
    /\ last_offset = 2
    /\ ~pair

\* C6: a Single Byte reads its offset as the next 4 bits, most significant
\* first, and no raw byte; it appends one byte: 0 if offset is 0, else the
\* byte offset places before the end.
C6_SingleByte ==
    [][ (pc = "running" /\ pc' = "running" /\ last'.op = "single byte") =>
            LET offset == 8 * Upcoming(3) + 4 * Upcoming(4)
                              + 2 * Upcoming(5) + Upcoming(6)
            IN  /\ offset \in 0..15
                /\ last'.offset = offset
                /\ bytes_count' = bytes_count
                /\ bits_count' = bits_count + 7
                /\ Len(out') = Len(out) + 1
                /\ Kept
                /\ out'[Len(out')] = IF offset = 0 THEN 0
                                     ELSE out[Len(out) - offset + 1]
      ]_vars

\* a Single Byte has copied a byte from distance 3 that differs from the one
\* at distance 2
C6_Witness ==
    /\ pc = "running"
    /\ last.op = "single byte"
    /\ last.how = "copy"
    /\ last.offset = 3
    /\ out[Len(out)] = out[Len(out) - 3]
    /\ out[Len(out)] # out[Len(out) - 2]

\* C7: the initial step and every Literal read exactly one raw byte and append
\* it; the initial step reads no bit; out[0] is in[0] from then on.
C7_Literals ==
    [][ /\ (pc = "start" /\ in # << >>) =>
               /\ pc' = "running"
               /\ out' = <<in[1]>>
               /\ bits_count' = 0
               /\ bytes_count' = 1
               /\ pos' = 1
        /\ (pc = "running" /\ pc' = "running" /\ last'.op = "literal") =>
               /\ out' = Append(out, in[pos'])
               /\ bytes_count' = bytes_count + 1
               /\ bits_count' = bits_count + 1
        /\ in # << >> => (Len(out') >= 1 /\ out'[1] = in[1])
      ]_vars

\* a Literal has appended a second, different byte
C7_Witness ==
    /\ pc = "running"
    /\ last.op = "literal"
    /\ Len(out) = 2
    /\ out[1] = in[1]
    /\ out[2] = in[3]
    /\ out[2] # out[1]

\* C9: back_copy(offset, length) called with 1 <= offset <= len(out) returns;
\* out is then length bytes longer, its old bytes are unchanged and each new
\* byte equals the byte offset places before it, also when offset < length.
C9_BackCopy ==
    [][ (/\ pc = "running"
         /\ last'.length # None
         /\ 1 <= last'.offset
         /\ last'.offset <= Len(out)) =>
            /\ pc' = "running"
            /\ Len(out') = Len(out) + last'.length
            /\ Kept
            /\ CopiedFrom(last'.offset)
      ]_vars

\* [0x41], then back_copy(1, 5)
C9_Witness ==
    /\ pc = "running"
    /\ Len(in) = 3
    /\ last.op = "block"
    /\ last.offset = 1
    /\ last.length = 5
    /\ out = <<65, 65, 65, 65, 65, 65>>

\* C10: a Block or Short Block that appends a byte copies from a distance in
\* 1..len(out), and a Block whose offset is 0 fails and copies nothing.
C10_CopyDistance ==
    [][ (/\ pc = "running"
         /\ last'.op \in {"block", "short block"}
         /\ last'.length # None) =>
            /\ Len(out') > Len(out) =>
                   (1 <= last'.offset /\ last'.offset <= Len(out))
            /\ (last'.op = "block" /\ last'.offset = 0) =>
                   (pc' = "failed" /\ out' = out)
      ]_vars

\* The i-th bit (from 1) of a stream whose bytes are all tags.
StreamBit(i) == (in[(i - 1) \div 8 + 1] \div Pow2(7 - ((i - 1) % 8))) % 2

\* The number whose binary digits are 1 and then the bits at the places
\* from + 1, from + 3, ..., from + 2k - 1 of the stream.
RECURSIVE OneThenDataBits(_, _)
OneThenDataBits(from, k) ==
    IF k = 0 THEN 1
    ELSE 2 * OneThenDataBits(from, k - 1) + StreamBit(from + 2 * k - 1)

\* The bits of the stream after place from are those of code.
CodeAt(from, code) ==
    /\ from + Len(code) <= 8 * Len(in)
    /\ \A i \in 1..Len(code) : StreamBit(from + i) = code[i]

\* The codes the format's description lists, each with its value.
Examples ==
    { <<2, <<0, 0>>>>,
      <<3, <<1, 0>>>>,
      <<4, <<0, 1, 0, 0>>>>,
      <<7, <<1, 1, 1, 0>>>>,
      <<14, <<1, 1, 1, 1, 0, 0>>>>,
      <<170, <<0, 1, 1, 1, 0, 1, 1, 1, 0, 1, 1, 1, 0, 0>>>> }

\* C8: read_variablenumber reads d1 c1 ... dk ck, c1 to c(k-1) being 1 and ck
\* being 0, consumes those 2k bits and returns the number with the binary
\* digits 1 d1 ... dk, which is at least 2; the listed codes give the listed
\* values.
C8_VariableNumber ==
    [][ /\ pc' = "running" =>
               LET n == bits_count' - bits_count
                   k == n \div 2
               IN  /\ n = 2 * k
                   /\ k >= 1
                   /\ \A j \in 1..k :
                          StreamBit(bits_count + 2 * j) = IF j < k THEN 1 ELSE 0
                   /\ last'.v = OneThenDataBits(bits_count, k)
                   /\ last'.v >= 2
                   /\ bytes_count' = bytes_count
        /\ \A e \in Examples :
               CodeAt(bits_count, e[2]) =>
                   /\ pc' = "running"
                   /\ last'.v = e[1]
                   /\ bits_count' = bits_count + Len(e[2])
      ]_vars

\* 01110111011100 has been read as 170
C8_Witness ==
    /\ pc = "running"
    /\ in = <<119, 112>>
    /\ bits_count = 14
    /\ last.v = 170

\* C11: a Block, Short Block or Single Byte whose copy distance is greater
\* than len(out) makes do() raise: the pass appends nothing, and do() never
\* returns after it.
C11_DistancePastStart ==
    [][ /\ (/\ pc = "running"
            /\ last'.op \in {"block", "short block", "single byte"}
            /\ last'.length # None
            /\ last'.offset > Len(out)) =>
               /\ pc' = "failed"
               /\ out' = out
        /\ pc = "failed" => pc' = "failed"
      ]_vars

\* a Single Byte has failed on a distance of 3 with one byte in out
C11_Witness ==
    /\ pc = "failed"
    /\ last.op = "single byte"
    /\ last.how = "copy"
    /\ last.offset = 3
    /\ out = <<42>>

\* The object with one more byte at the end of its stream.
Longer == [Self EXCEPT !.in = in \o <<0>>]

\* The call do() makes next, on the object m.
NextPass(m) == IF pc = "start" THEN initial_literal(m) ELSE pass(m)

\* The next call reads a byte, raw or tag, that the stream does not have: given
\* one more byte it reads past the end of the stream as it is.
ReadsPastEnd == NextPass(Longer).pos > Len(in)

\* C12: a raw byte or a tag wanted when the stream is exhausted makes do()
\* raise, also on the empty stream; do() never returns after that, and it
\* returns only on a terminator that lies in the stream.
C12_InputExhausted ==
    [][ /\ (pc \in {"start", "running"} /\ ReadsPastEnd) => pc' = "failed"
        /\ (pc = "start" /\ in = << >>) => (pc' = "failed" /\ out' = << >>)
        /\ pc = "failed" => pc' = "failed"
        /\ pc' = "done" =>
               /\ last'.op = "short block"
               /\ pos' \in 1..Len(in)
               /\ in[pos'] \in {0, 1}
      ]_vars

\* a Block has failed where its raw byte should be
C12_Witness ==
    /\ pc = "failed"
    /\ last.op = "block"
    /\ last.how = "encoded"
    /\ last.lo = None
    /\ pos = Len(in)
    /\ Len(out) = 3

\* C13: when do() returns, the last byte it has read is the terminator's raw
\* byte, and do() on the stream cut after that byte returns the same output
\* from the same number of bytes; 0x2A, a tag 110xxxxx, 0x00 gives [0x2A]
\* from exactly three bytes, whatever follows.
C13_NothingReadAfterTerminator ==
    [][ /\ pc' = "done" =>
               /\ last'.b = in[pos']
               /\ do(DecompressInit(SubSeq(in, 1, pos'))).ok
               /\ do(DecompressInit(SubSeq(in, 1, pos'))).stop
               /\ do(DecompressInit(SubSeq(in, 1, pos'))).out = out'
               /\ do(DecompressInit(SubSeq(in, 1, pos'))).pos = pos'
        /\ (/\ pc = "running"
            /\ pos = 1
            /\ Len(in) >= 3
            /\ in[1] = 42
            /\ in[2] \div 32 = 6
            /\ in[3] = 0) =>
               /\ pc' = "done"
               /\ out' = <<42>>
               /\ pos' = 3
      ]_vars

\* 2A DF 00 FF has been decoded to [2A] from three bytes
C13_Witness ==
    /\ pc = "done"
    /\ in = <<42, 223, 0, 255>>
    /\ out = <<42>>
    /\ pos = 3

\* C15: whenever do() is about to read an opcode, pair is true exactly if the
\* last emission was the initial literal, a Literal or a Single Byte (a copy
\* or the zero byte), and false exactly if it was a Block (either branch) or
\* a Short Block that copied.
C15_PairFlag ==
    pc = "running" =>
        /\ last.op \in {"initial literal", "literal", "single byte",
                        "block", "short block"}
        /\ pair <=> last.op \in {"initial literal", "literal", "single byte"}
        /\ ~pair <=> last.op \in {"block", "short block"}
        /\ last.op = "single byte" => last.how \in {"copy", "zero"}
        /\ last.op = "block" => last.how \in {"reused", "encoded"}
        /\ last.op = "short block" => last.how = "copy"

\* a Single Byte that copied, right after a Block, has set pair again
C15_Witness ==
    /\ pc = "running"
    /\ in = Mixed
    /\ last.op = "single byte"
    /\ last.how = "copy"
    /\ last.offset = 3
    /\ pair

\* C16: no step of do() makes out shorter or changes a byte that was in it,
\* and every pass after which do() goes on, the initial literal included,
\* makes out at least one byte longer.
C16_AppendOnly ==
    [][ /\ Len(out') >= Len(out)
        /\ Kept
        /\ pc' = "running" => Len(out') >= Len(out) + 1
      ]_vars

\* out has grown by an overlapping copy of 32100 bytes
C16_Witness ==
    /\ pc = "running"
    /\ in = LongRun
    /\ last.op = "block"
    /\ last.offset = 3
    /\ last.length = 32100
    /\ Len(out) = 32103
    /\ SubSeq(out, 1, 3) = <<65, 66, 67>>

\* C17: read_byte called while bits are left in the tag returns the next byte
\* of the stream and leaves the tag, the count of bits left in it and
\* bits_count as they were; the read_bit after it takes no byte from the
\* stream and returns the top bit of that tag.
C17_RawByteMidTag ==
    [][ /\ (/\ last'.op = "read_byte"
            /\ current_bit # 0
            /\ pos < Len(in)) =>
               /\ pc' = "running"
               /\ last'.v = in[pos + 1]
               /\ pos' = pos + 1
               /\ bytes_count' = bytes_count + 1
               /\ tag' = tag
               /\ current_bit' = current_bit
               /\ bits_count' = bits_count
        /\ (/\ last.op = "read_byte"
            /\ pc = "running"
            /\ current_bit # 0
            /\ last'.op = "read_bit") =>
               /\ pc' = "running"
               /\ pos' = pos
               /\ last'.v = (tag \div 128) % 2
               /\ current_bit' = current_bit - 1
               /\ tag' = 2 * tag
      ]_vars

\* three bits of the tag 4B, then the raw byte B2, then the fourth bit, a 0
C17_Witness ==
    /\ pc = "running"
    /\ in = <<75, 178, 0>>
    /\ last.op = "read_bit"
    /\ last.v = 0
    /\ bits_count = 4
    /\ current_bit = 4
    /\ bytes_count = 1
    /\ pos = 2

\* The byte that was loaded as the tag, of which current_bit bits are left.
TagByte == tag \div Pow2(8 - current_bit)

\* C18: read_bit takes a byte from the stream exactly when no bit is left
\* in the tag, which is at every eighth call; a call returns bit 7 - k of the
\* tag byte, k being the number of calls since that byte was loaded; the
\* count of bits left is always in 0..7.
C18_TagReload ==
    [][ /\ current_bit \in 0..7
        /\ current_bit' \in 0..7
        /\ pc' = "running" => current_bit' = (8 - (bits_count' % 8)) % 8
        /\ (last'.op = "read_bit" /\ pc' = "running") =>
               /\ bits_count' = bits_count + 1
               /\ current_bit = 0 <=> bits_count % 8 = 0
               /\ current_bit = 0 <=> pos' = pos + 1
               /\ current_bit # 0 <=> pos' = pos
               /\ bytes_count' = bytes_count
               /\ current_bit' = 7 - (bits_count % 8)
               /\ current_bit = 0 => TagByte' = in[pos + 1]
               /\ current_bit # 0 => TagByte' = TagByte
               /\ last'.v = (TagByte' \div Pow2(7 - (bits_count % 8))) % 2
        /\ last'.op = "read_byte" => (tag' = tag /\ current_bit' = current_bit)
      ]_vars

\* the ninth bit has come from a second tag byte, B2, as its top bit
C18_Witness ==
    /\ pc = "running"
    /\ last.op = "read_bit"
    /\ bits_count = 9
    /\ current_bit = 7
    /\ pos = 2
    /\ in[2] = 178
    /\ last.v = 1

\* The bits of the stream not yet read: those left in the tag and those of
\* the bytes after the stream position.
Remaining == 8 * (Len(in) - pos) + current_bit

\* C19: do() halts on every stream, by returning or by raising; every pass
\* after which it goes on has read at least one bit, so that fewer bits of
\* the stream remain, and has appended finitely many bytes.
C19_Halts ==
    /\ <>(pc \in {"done", "failed"})
    /\ [][ (pc = "running" /\ pc' = "running") =>
               /\ bits_count' > bits_count
               /\ Remaining' < Remaining
               /\ Remaining' >= 0
               /\ Len(out') \in Nat
          ]_vars

\* do() has returned after the eight passes of Mixed
C19_Witness ==
    /\ pc = "done"
    /\ in = Mixed
    /\ pos = Len(in)
    /\ Remaining < 8

\* d, or the distance of the pass that left the object as r if that pass was
\* a Block or a Short Block that copied.
DistanceAfter(r, d) ==
    IF r.log.op \in {"block", "short block"} /\ r.log.length # None
    THEN r.log.offset
    ELSE d

\* The passes of do() on the stream are made again from the object m, up to
\* the pass that has read bits_count bits.
RECURSIVE RecentDistanceFrom(_, _)
RecentDistanceFrom(m, d) ==
    IF ~m.ok \/ m.stop \/ m.bits_count >= bits_count THEN d
    ELSE RecentDistanceFrom(pass(m), DistanceAfter(pass(m), d))

\* The distance of the most recent Block or Short Block among the passes
\* do() has made; 0 if there was none.
RecentDistance == RecentDistanceFrom(initial_literal(DecompressInit(in)), 0)

\* C20: the initial literal, a Literal and a Single Byte, copy or zero,
\* leave last_offset as it was; a Block that reuses the offset copies from
\* the distance of the most recent Block or Short Block.
C20_LastOffsetKept ==
    [][ /\ last'.op \in {"initial literal", "literal", "single byte"} =>
               last_offset' = last_offset
        /\ (/\ pc = "running"
            /\ last'.op = "block"
            /\ last'.how = "reused"
            /\ last'.offset # None) =>
               /\ last'.offset = RecentDistance
               /\ last_offset' = RecentDistance
               /\ (pc' = "running" /\ RecentDistance >= 1) =>
                      /\ Len(out') = Len(out) + last'.v
                      /\ CopiedFrom(RecentDistance)
      ]_vars

\* a Block has reused the distance 3 of a Short Block that lies four passes
\* back, a Single Byte from distance 2 among them
C20_Witness ==
    /\ pc = "running"
    /\ in = Apart
    /\ last.op = "block"
    /\ last.how = "reused"
    /\ last.offset = 3
    /\ out = <<16, 32, 48, 16, 32, 64, 32, 0, 80, 32, 0, 80>>

====
